---- MODULE Spec2Model ----
(***************************************************************************)
(* PointCloudDataset (src/aliad/data/point_cloud_dataset.py): the in-memory *)
(* loader that pads ragged per-jet particle columns, concatenates labelled  *)
(* samples and derives class-balanced weights.  One load call is modelled   *)
(* as the sequence of its steps (pc); the steps of one call never interleave*)
(* with anything else, the object being single-threaded.                    *)
(***************************************************************************)
EXTENDS Integers, Sequences, FiniteSets, TLC

(* ------------------------------ bounds -------------------------------- *)
\* longest `samples` list passed to load
MaxSamples == 2
\* largest number of entries of the sample_sizes dictionary
MaxOverrides == 1

(* --------------------------- python values ---------------------------- *)
\* None / an unbound local is the empty set, a bound value x is {x}
None == {}
Some(x) == {x}
Get(o) == CHOOSE x \in o : TRUE

Min(a, b) == IF a < b THEN a ELSE b

\* {}: a dictionary without keys
EmptyDict == [x \in {} |-> 0]

RECURSIVE Concat(_)
\* np.concatenate along the event axis of a list of arrays
Concat(blocks) ==
    IF blocks = <<>> THEN <<>> ELSE Head(blocks) \o Concat(Tail(blocks))

(* ------------------------ configuration (4.4) ------------------------- *)
\* set_class_labels on class_labels = {1: ["sig"], 0: ["bkg", "qcd"]}
Samples == {"sig", "bkg", "qcd"}
label_map == [s \in Samples |-> IF s = "sig" THEN 1 ELSE 0]
\* list(self.label_map): insertion order of the dictionary
DefaultSamples == <<"sig", "bkg", "qcd">>
\* a name that no class lists
SampleNames == Samples \cup {"top"}

num_jets == 2
Jets == 1 .. num_jets

\* feature_dict, in iteration order: one ragged group, one flat group
feature_dict == << [name |-> "part_features", columns |-> <<"part_pt">>],
                   [name |-> "jet_features",  columns |-> <<"jet_pt">>] >>
FeatureTypes == {feature_dict[i].name : i \in DOMAIN feature_dict}
ColumnsOf(ft) ==
    feature_dict[CHOOSE i \in DOMAIN feature_dict : feature_dict[i].name = ft].columns

\* pad_size values: one below and one above the longest particle list
PadSizes == {2, 4}

(* ------------------------- the parquet sources ------------------------ *)
\* records: the three samples, and an old export of qcd without jet_pt
Records == {"sig", "bkg", "qcd", "qcd_old"}
Base(rec) == IF rec = "qcd_old" THEN "qcd" ELSE rec
\* len(record)
NumEvents(rec) == IF Base(rec) = "sig" THEN 1 ELSE 2
RecordColumns(rec) ==
    IF rec = "qcd_old" THEN {"part_pt"} ELSE {"part_pt", "jet_pt"}
RaggedColumns == {"part_pt"}
\* number of particles of jet j of event e; every (record, jet) holds an
\* event shorter than the smallest pad_size, so pad_none always yields a
\* missing slot and to_numpy a fully masked array
RagLen(rec, e, j) ==
    CASE Base(rec) = "sig" -> 1
      [] Base(rec) = "bkg" -> IF e = j THEN 1 ELSE 3
      [] OTHER             -> IF e = j THEN 2 ELSE 1
RecId(rec) == CASE Base(rec) = "sig" -> 1 [] Base(rec) = "bkg" -> 2 [] OTHER -> 3
\* value of a flat column, and of the k-th particle of a ragged column
FlatVal(rec, e, j) == 100 * RecId(rec) + 10 * e + j
PartVal(rec, e, j, k) == 10 * FlatVal(rec, e, j) + k

Files == {"all.parquet", "part.parquet", "sig.parquet", "bkg.parquet",
          "qcd.parquet", "qcd_old.parquet"}
\* ak.fields of a combined file
FileFields(f) ==
    CASE f = "all.parquet"  -> {"sig", "bkg", "qcd"}
      [] f = "part.parquet" -> {"sig", "bkg"}
      [] OTHER              -> {}
\* the record a per-sample file holds
FileRecord(f) ==
    CASE f = "sig.parquet" -> "sig"
      [] f = "bkg.parquet" -> "bkg"
      [] f = "qcd.parquet" -> "qcd"
      [] OTHER             -> "qcd_old"
\* a view is the whole file (field "*") or one field of a combined file
WholeFile(f) == [file |-> f, field |-> "*"]
FieldOf(f, s) == [file |-> f, field |-> s]
RecordOf(view) ==
    IF view.field = "*" THEN FileRecord(view.file) ELSE view.field

\* the `filenames` argument of load
StrFilenames == {[kind |-> "str", file |-> f, map |-> <<>>] :
                    f \in {"all.parquet", "part.parquet"}}
FullDict == [s \in Samples |-> CASE s = "sig" -> "sig.parquet"
                                 [] s = "bkg" -> "bkg.parquet"
                                 [] OTHER     -> "qcd.parquet"]
DictFilenames ==
    {[kind |-> "dict", file |-> "", map |-> m] :
        m \in {FullDict,
               [s \in {"sig", "bkg"} |-> FullDict[s]],
               [FullDict EXCEPT !["qcd"] = "qcd_old.parquet"]}}
OtherFilenames == {[kind |-> "other", file |-> "", map |-> <<>>]}
FilenameArgs == StrFilenames \cup DictFilenames \cup OtherFilenames

\* the `samples` argument of load: None or a list of names
SampleLists == UNION {[1 .. n -> SampleNames] : n \in 0 .. MaxSamples}
SamplesArgs == {None} \cup {Some(l) : l \in SampleLists}

\* the arguments of the calls made over the life of one object: the combined
\* file, the complete mapping, and a mapping that lacks bkg and names the
\* old export for qcd; sample lists that name no sample twice, in the order
\* of the class dictionary, the unlisted name last
MixedDict == [s \in {"sig", "qcd"} |-> IF s = "sig" THEN "sig.parquet" ELSE "qcd_old.parquet"]
LifeFilenameArgs ==
    {[kind |-> "str", file |-> "all.parquet", map |-> <<>>],
     [kind |-> "dict", file |-> "", map |-> FullDict],
     [kind |-> "dict", file |-> "", map |-> MixedDict]}
NameRank(s) == CASE s = "sig" -> 1 [] s = "bkg" -> 2 [] s = "qcd" -> 3 [] OTHER -> 4
LifeSamplesArgs ==
    {None} \cup {Some(l) : l \in {q \in SampleLists :
                                    \A i, j \in DOMAIN q : i < j => NameRank(q[i]) < NameRank(q[j])}}

\* sample_sizes dictionaries: each request one below, at or one above the
\* number of events the sample holds
SizeDicts ==
    UNION {{d \in [D -> 0 .. 3] : \A s \in D : d[s] \in NumEvents(s) - 1 .. NumEvents(s) + 1} :
              D \in {E \in SUBSET Samples : Cardinality(E) <= MaxOverrides}}


(* ------------------------------- state -------------------------------- *)
VARIABLES
    sample_sizes, pad_size, shuffle,        \* configuration fields
    _features, _labels, _weights,           \* the published dataset
    cache_arrays, cache_sample_arrays,      \* the transient per-sample cache
    constructed,                            \* __init__ has returned
    pc, result, error,                      \* position in load; how the last call ended
    filenames, samples, pos,                \* arguments of the running call, loop index
    features, labels, masks, class_sizes, weights,   \* locals of load
    prev,                                   \* history: what was published when the call began, or what it published
    built,                                  \* history: one entry per sample processed by the call
    trace,                                  \* history: the steps the call has executed
    preshuffle,                             \* history: the arrays as concatenated, before any shuffle
    capfail                                 \* history: the size request the call was refused for

config == <<sample_sizes, pad_size, shuffle>>
published == <<_features, _labels, _weights>>
cache == <<cache_arrays, cache_sample_arrays>>
args == <<filenames, samples, pos>>
locals == <<features, labels, masks, class_sizes, weights>>
history == <<prev, built, trace, preshuffle, capfail>>
vars == <<config, published, cache, constructed, pc, result, error, args, locals, history>>

NoArgs == [kind |-> "other", file |-> "", map |-> <<>>]

\* __init__ up to the call of load (lines 29-39); the cache attributes are
\* first assigned by the clear_cache that opens that call
Init ==
    /\ sample_sizes \in SizeDicts
    /\ pad_size \in PadSizes
    /\ shuffle \in BOOLEAN
    /\ _features = Some(EmptyDict)
    /\ _labels = None
    /\ _weights = None
    /\ cache_arrays = None
    /\ cache_sample_arrays = None
    /\ constructed = FALSE
    /\ pc = "idle"
    /\ result = "none"
    /\ error = ""
    /\ filenames = NoArgs
    /\ samples = <<>>
    /\ pos = 1
    /\ features = EmptyDict
    /\ labels = <<>>
    /\ masks = <<>>
    /\ class_sizes = EmptyDict
    /\ weights = None
    /\ prev = <<Some(EmptyDict), None, None>>
    /\ built = <<>>
    /\ trace = <<>>
    /\ preshuffle = None
    /\ capfail = None

(* --------------------------- padding engine --------------------------- *)
\* array[:sample_size]: the leading events, at most as many as there are
Sliced(rec, sample_size) == 1 .. Min(sample_size, NumEvents(rec))

\* get_padded_array: pad_none(clip=True) then fill_none(pad_val = 0)
get_padded_array(rec, j, pad, sample_size) ==
    [e \in Sliced(rec, sample_size) |->
        [k \in 1 .. pad |-> IF k <= RagLen(rec, e, j) THEN PartVal(rec, e, j, k) ELSE 0]]

\* get_array: a flat column as it is
get_array(rec, j, sample_size) ==
    [e \in Sliced(rec, sample_size) |-> FlatVal(rec, e, j)]

\* get_mask_array: the mask of the masked array to_numpy returns for the
\* padded option-type array, which numpy sets where the value is missing
get_mask_array(rec, j, pad, sample_size) ==
    [e \in Sliced(rec, sample_size) |->
        [k \in 1 .. pad |-> k > RagLen(rec, e, j)]]

is_ragged(column) == column \in RaggedColumns

\* one column of one jet, padded or flat
ColumnArray(rec, j, column, pad, sample_size) ==
    IF is_ragged(column) THEN get_padded_array(rec, j, pad, sample_size)
    ELSE get_array(rec, j, sample_size)

HasRagged(ft) == \E c \in DOMAIN ColumnsOf(ft) : is_ragged(ColumnsOf(ft)[c])

\* np.stack(feature_arrays, -1) per jet, then np.stack(..., axis=1) over jets:
\* (event, jet, particle slot, column) or (event, jet, column)
JetFeatureArrays(rec, ft, pad, sample_size) ==
    LET cols == ColumnsOf(ft)
    IN  [e \in Sliced(rec, sample_size) |->
          [j \in Jets |->
            IF HasRagged(ft)
            THEN [k \in 1 .. pad |->
                    [c \in DOMAIN cols |-> ColumnArray(rec, j, cols[c], pad, sample_size)[e][k]]]
            ELSE [c \in DOMAIN cols |-> ColumnArray(rec, j, cols[c], pad, sample_size)[e]]]]

\* the masks of the jets stacked on axis 1: (event, jet, particle slot)
JetMaskArrays(rec, pad, sample_size) ==
    [e \in Sliced(rec, sample_size) |->
        [j \in Jets |-> get_mask_array(rec, j, pad, sample_size)[e]]]

\* mask_arrays after the loop over the feature types: None without a ragged group
SampleMask(rec, pad, sample_size) ==
    IF \E ft \in FeatureTypes : HasRagged(ft)
    THEN Some(JetMaskArrays(rec, pad, sample_size))
    ELSE None

\* the columns the feature loop reads that the record does not hold
MissingColumns(rec) ==
    {c \in UNION {{ColumnsOf(ft)[i] : i \in DOMAIN ColumnsOf(ft)} : ft \in FeatureTypes} :
        c \notin RecordColumns(rec)}

(* ------------------------------- load --------------------------------- *)
\* an exception leaves load: nothing after the raising line runs
Raise(msg, ca, csa) ==
    /\ pc' = "idle"
    /\ result' = "raised"
    /\ error' = msg
    /\ cache_arrays' = ca
    /\ cache_sample_arrays' = csa
    /\ features' = EmptyDict
    /\ labels' = <<>>
    /\ masks' = <<>>
    /\ class_sizes' = EmptyDict
    /\ weights' = None
    /\ UNCHANGED <<config, published, constructed, args, prev, preshuffle>>

\* lines 104-111: clear_cache, fresh locals, the default sample list
LoadBegin(fn, smp) ==
    /\ pc = "idle"
    /\ pc' = "loop"
    /\ cache_arrays' = None
    /\ cache_sample_arrays' = None
    /\ filenames' = fn
    /\ samples' = IF smp = None THEN DefaultSamples ELSE Get(smp)
    /\ pos' = 1
    /\ features' = EmptyDict
    /\ labels' = <<>>
    /\ masks' = <<>>
    /\ class_sizes' = EmptyDict
    /\ weights' = None
    /\ prev' = published
    /\ built' = <<>>
    /\ trace' = <<"begin">>
    /\ preshuffle' = None
    /\ capfail' = None
    /\ UNCHANGED <<config, published, constructed, result, error>>

\* _load_sample_data: [err, ca, csa], the cache fields when it returns or raises
LoadSampleData(fn, sample, ca, csa) ==
    CASE fn.kind = "str" ->
            IF ca # None
            THEN IF sample \notin FileFields(Get(ca))
                 THEN [err |-> "RuntimeError: dataset does not contain the sample",
                       ca |-> ca, csa |-> csa]
                 ELSE [err |-> "", ca |-> ca, csa |-> csa]
            ELSE IF sample \notin FileFields(fn.file)
                 THEN [err |-> "FieldNotFoundError", ca |-> Some(fn.file), csa |-> csa]
                 ELSE [err |-> "", ca |-> Some(fn.file),
                       csa |-> Some(FieldOf(fn.file, sample))]
      [] fn.kind = "dict" ->
            IF sample \notin DOMAIN fn.map
            THEN [err |-> "ValueError: no input file specified for the sample",
                  ca |-> ca, csa |-> csa]
            ELSE [err |-> "", ca |-> Some(fn.map[sample]),
                  csa |-> Some(WholeFile(fn.map[sample]))]
      [] OTHER ->
            [err |-> "ValueError: filenames must be a string or a dictionary",
             ca |-> ca, csa |-> csa]

\* line 120: self.sample_sizes.get(sample, None)
Requested(sample) ==
    IF sample \in DOMAIN sample_sizes THEN Some(sample_sizes[sample]) ELSE None

\* line 122: the test that refuses a size request
SizeRefused(sample_size, sample_size_) == sample_size > sample_size_

\* the count of a class replaced by the size of its latest sample
AddClassSize_overwrite(cs, class_val, sample_size) ==
    [v \in DOMAIN cs \cup {class_val} |-> IF v = class_val THEN sample_size ELSE cs[v]]

\* lines 128-130: the running event count of a class
AddClassSize(cs, class_val, sample_size) ==
    [v \in DOMAIN cs \cup {class_val} |->
        (IF v \in DOMAIN cs THEN cs[v] ELSE 0) + (IF v = class_val THEN sample_size ELSE 0)]

\* lines 134-135, 164: features[feature_type].append(...)
AppendFeatures(fs, rec, pad, sample_size) ==
    [ft \in DOMAIN fs \cup FeatureTypes |->
        (IF ft \in DOMAIN fs THEN fs[ft] ELSE <<>>)
            \o <<JetFeatureArrays(rec, ft, pad, sample_size)>>]

\* one turn of the loop over the samples, lines 112-168
ProcessSample ==
    /\ pc = "loop"
    /\ pos <= Len(samples)
    /\ trace' = Append(trace, "sample")
    /\ LET sample == samples[pos]
           ld == LoadSampleData(filenames, sample, cache_arrays, cache_sample_arrays)
       IN  IF sample \notin DOMAIN label_map
           THEN /\ Raise("RuntimeError: no class value defined for the sample",
                         cache_arrays, cache_sample_arrays)
                /\ UNCHANGED <<built, capfail>>
           ELSE IF ld.err # ""
           THEN /\ Raise(ld.err, ld.ca, ld.csa)
                /\ UNCHANGED <<built, capfail>>
           ELSE
             LET view == Get(ld.csa)
                 rec == RecordOf(view)
                 available == NumEvents(rec)
                 requested == Requested(sample)
                 sample_size == IF requested = None THEN available ELSE Get(requested)
                 entry == [sample |-> sample, view |-> view, available |-> available,
                           requested |-> requested, sample_size |-> sample_size,
                           rows |-> Min(sample_size, available)]
             IN  IF requested # None /\ SizeRefused(available, Get(requested))
                 THEN /\ Raise("RuntimeError: can not request more events than is available",
                               ld.ca, ld.csa)
                      /\ capfail' = Some([sample |-> sample, available |-> available,
                                          requested |-> Get(requested)])
                      /\ UNCHANGED built
                 ELSE IF MissingColumns(rec) # {}
                 THEN /\ Raise("FieldNotFoundError: missing column", ld.ca, ld.csa)
                      /\ UNCHANGED <<built, capfail>>
                 ELSE /\ labels' = Append(labels, [e \in 1 .. sample_size |-> label_map[sample]])
                      /\ class_sizes' = AddClassSize(class_sizes, label_map[sample], sample_size)
                      /\ features' = AppendFeatures(features, rec, pad_size, sample_size)
                      /\ masks' = LET m == SampleMask(rec, pad_size, sample_size)
                                  IN  IF m = None THEN masks ELSE Append(masks, Get(m))
                      /\ cache_arrays' = ld.ca
                      /\ cache_sample_arrays' = ld.csa
                      /\ pos' = pos + 1
                      /\ built' = Append(built, entry)
                      /\ UNCHANGED <<config, published, constructed, pc, result, error,
                                     filenames, samples, weights, prev, preshuffle, capfail>>

\* the label count never compared
SizesMatchLabels_unchecked(size, lab) == TRUE

\* lines 177-178: the event count of the features against the label count
SizesMatchLabels(size, lab) == size = Len(lab)

\* the concatenated features stored on the object before they are validated
Combine_eager ==
    /\ pc = "loop"
    /\ pos > Len(samples)
    /\ trace' = Append(trace, "combine")
    /\ UNCHANGED <<built, capfail>>
    /\ LET cat == [ft \in DOMAIN features |-> Concat(features[ft])]
           sizes == {Len(cat[ft]) : ft \in DOMAIN features}
           lab == Concat(labels)
           size == CHOOSE n \in sizes : TRUE
           m == IF masks # <<>> THEN Some(Concat(masks)) ELSE None
           ok == /\ labels # <<>>
                 /\ Cardinality(sizes) = 1
                 /\ SizesMatchLabels(size, lab)
       IN  /\ _features' = Some(cat)
           /\ UNCHANGED <<config, _labels, _weights, cache, constructed, args,
                          class_sizes, weights, prev>>
           /\ IF ok
              THEN /\ features' = cat
                   /\ labels' = lab
                   /\ masks' = m
                   /\ preshuffle' = Some([features |-> cat, labels |-> lab, masks |-> m])
                   /\ pc' = IF shuffle THEN "shuffle" ELSE "weights"
                   /\ UNCHANGED <<result, error>>
              ELSE /\ pc' = "idle"
                   /\ result' = "raised"
                   /\ error' = "RuntimeError: inconsistent sample size"
                   /\ features' = EmptyDict
                   /\ labels' = <<>>
                   /\ masks' = <<>>
                   /\ UNCHANGED preshuffle

\* lines 169-183: concatenate over the samples and validate the event counts
Combine ==
    /\ pc = "loop"
    /\ pos > Len(samples)
    /\ trace' = Append(trace, "combine")
    /\ UNCHANGED <<built, capfail>>
    /\ LET cat == [ft \in DOMAIN features |-> Concat(features[ft])]
           sizes == {Len(cat[ft]) : ft \in DOMAIN features}
           lab == Concat(labels)
           size == CHOOSE n \in sizes : TRUE
           m == IF masks # <<>> THEN Some(Concat(masks)) ELSE None
       IN  IF labels = <<>>
           THEN Raise("ValueError: need at least one array to concatenate",
                      cache_arrays, cache_sample_arrays)
           ELSE IF Cardinality(sizes) # 1
           THEN Raise("RuntimeError: inconsistent sample size in different feature types",
                      cache_arrays, cache_sample_arrays)
           ELSE IF ~SizesMatchLabels(size, lab)
           THEN Raise("RuntimeError: inconsistent sample size between features and labels",
                      cache_arrays, cache_sample_arrays)
           ELSE IF m # None /\ Len(Get(m)) # size
           THEN Raise("AssertionError", cache_arrays, cache_sample_arrays)
           ELSE /\ features' = cat
                /\ labels' = lab
                /\ masks' = m
                /\ preshuffle' = Some([features |-> cat, labels |-> lab, masks |-> m])
                /\ pc' = IF shuffle THEN "shuffle" ELSE "weights"
                /\ UNCHANGED <<config, published, cache, constructed, result, error,
                               args, class_sizes, weights, prev>>

\* array[index]: the gather of the rows at the positions index names
Gather(array, index) == [i \in DOMAIN index |-> array[index[i]]]

\* lines 184-193: one permutation of the rows, drawn by np.random.shuffle,
\* applied to the features, the labels, the local `weights` and the masks
Shuffle ==
    /\ pc = "shuffle"
    /\ trace' = Append(trace, "shuffle")
    /\ UNCHANGED <<built, capfail>>
    /\ IF weights = None
       THEN \* line 191 reads a local that no earlier line has bound; the rows
            \* gathered at lines 189-190 are locals, lost with the frame
            Raise("UnboundLocalError: weights", cache_arrays, cache_sample_arrays)
       ELSE \E index \in Permutations(1 .. Len(labels)) :
              /\ features' = [ft \in DOMAIN features |-> Gather(features[ft], index)]
              /\ labels' = Gather(labels, index)
              /\ weights' = Some(Gather(Get(weights), index))
              /\ masks' = IF masks = None THEN None ELSE Some(Gather(Get(masks), index))
              /\ pc' = "weights"
              /\ UNCHANGED <<config, published, cache, constructed, result, error,
                             args, class_sizes, prev, preshuffle>>

\* lines 196-199: ones, then every row of a class divided by the class size;
\* a weight is the fraction num / den
ClassWeights(lab, cs) ==
    [i \in DOMAIN lab |->
        [num |-> 1, den |-> IF lab[i] \in DOMAIN cs THEN cs[lab[i]] ELSE 1]]

\* np.expand_dims(column, axis=-1): shape (N, 1)
ExpandDims(column) == [i \in DOMAIN column |-> <<column[i]>>]

\* lines 194-201: the mask entry, the weights, the trailing axis
ComputeWeights ==
    /\ pc = "weights"
    /\ trace' = Append(trace, "weights")
    /\ features' = IF masks = None THEN features
                   ELSE [ft \in DOMAIN features \cup {"part_masks"} |->
                            IF ft = "part_masks" THEN Get(masks) ELSE features[ft]]
    /\ weights' = Some(ExpandDims(ClassWeights(labels, class_sizes)))
    /\ labels' = ExpandDims(labels)
    /\ pc' = "publish"
    /\ UNCHANGED <<config, published, cache, constructed, result, error, args,
                   masks, class_sizes, prev, built, preshuffle, capfail>>

\* lines 202-205: the three fields are assigned, then clear_cache
Publish ==
    /\ pc = "publish"
    /\ trace' = Append(trace, "publish")
    /\ _features' = Some(features)
    /\ _labels' = Some(labels)
    /\ _weights' = weights
    /\ cache_arrays' = None
    /\ cache_sample_arrays' = None
    /\ constructed' = TRUE
    /\ pc' = "idle"
    /\ result' = "ok"
    /\ error' = ""
    /\ features' = EmptyDict
    /\ labels' = <<>>
    /\ masks' = <<>>
    /\ class_sizes' = EmptyDict
    /\ weights' = None
    /\ prev' = <<Some(features), Some(labels), weights>>
    /\ UNCHANGED <<config, args, built, preshuffle, capfail>>

\* __len__: line 43
DatasetLen == Len(Get(_labels))

\* line 40: __init__ calls load with the arguments it was given
Construct ==
    \E fn \in FilenameArgs, smp \in SamplesArgs :
        /\ result = "none"
        /\ LoadBegin(fn, smp)

\* the life of one object: its construction ...
FirstLoad ==
    \E fn \in LifeFilenameArgs, smp \in LifeSamplesArgs :
        /\ result = "none"
        /\ LoadBegin(fn, smp)

\* ... and every later call of load on the constructed object
Reload ==
    \E fn \in LifeFilenameArgs, smp \in LifeSamplesArgs :
        /\ constructed
        /\ LoadBegin(fn, smp)

\* the construction of one object, over every argument
NextInit ==
    \/ Construct
    \/ ProcessSample
    \/ Combine
    \/ Shuffle
    \/ ComputeWeights
    \/ Publish

SpecInit == Init /\ [][NextInit]_vars

\* the construction and every later call of load
Next ==
    \/ FirstLoad
    \/ Reload
    \/ ProcessSample
    \/ Combine
    \/ Shuffle
    \/ ComputeWeights
    \/ Publish

Spec == Init /\ [][Next]_vars

(* ------------------------------ properties ---------------------------- *)
\* the published arrays, once a dataset is published
X == Get(_features)
y == Get(_labels)
weight == Get(_weights)

\* the record and event each row of the arrays was read from, by `built`
RECURSIVE RowOrigins(_)
RowOrigins(entries) ==
    IF entries = <<>> THEN <<>>
    ELSE [e \in 1 .. Head(entries).rows |-> [rec |-> RecordOf(Head(entries).view), event |-> e]]
            \o RowOrigins(Tail(entries))

\* C1: in every published dataset the event axis has one length: every
\* feature tensor of X (the mask entry included), y and weight have
\* len(dataset) rows.
EventAxisAligned ==
    _labels # None =>
        /\ \A ft \in DOMAIN X : Len(X[ft]) = DatasetLen
        /\ Len(weight) = DatasetLen
        /\ \A ft, gt \in DOMAIN X : Len(X[ft]) = Len(X[gt])

\* C1 witness: a dataset of two samples, one with a size request, with a
\* mask tensor and at least three rows
EventAxisAlignedWitness ==
    /\ result = "ok"
    /\ Len(built) = 2
    /\ \E i \in DOMAIN built : built[i].requested # None
    /\ "part_masks" \in DOMAIN X
    /\ DatasetLen >= 3

\* the number of published rows labelled v
ClassCount(v) == Cardinality({i \in DOMAIN y : y[i][1] = v})

\* C2: in every published dataset every row labelled v weighs exactly
\* 1 / N_v, N_v the number of published rows labelled v, so the weights of
\* each class sum to 1.
ClassWeightsNormalised ==
    _labels # None =>
        \A i \in DOMAIN y :
            /\ weight[i] = <<[num |-> 1, den |-> ClassCount(y[i][1])]>>
            /\ ClassCount(y[i][1]) * weight[i][1].num = weight[i][1].den

\* C2 witness: two samples feed class 0, class 1 is smaller, and a size
\* request is in force
ClassWeightsNormalisedWitness ==
    /\ result = "ok"
    /\ \E i, j \in DOMAIN built :
          /\ i # j
          /\ built[i].sample # built[j].sample
          /\ label_map[built[i].sample] = label_map[built[j].sample]
    /\ \E i \in DOMAIN built : built[i].requested # None
    /\ ClassCount(1) > 0
    /\ ClassCount(0) > ClassCount(1)

\* the events a sample contributes when its size request is honoured
Cap(entry) ==
    IF entry.requested = None THEN entry.available ELSE Get(entry.requested)

\* C3: a size request above the available count fails the load at the
\* size test and no other request does; a sample that passes the test
\* contributes its first `request` events (all of them without a request)
\* to every array.
SizeOverrideEnforced ==
    /\ capfail # None => Get(capfail).requested > Get(capfail).available
    /\ \A i \in DOMAIN built :
          /\ built[i].requested # None => Get(built[i].requested) <= built[i].available
          /\ built[i].rows = Cap(built[i])
          /\ built[i].sample_size = Cap(built[i])

\* C4: a load with shuffle enabled that has assembled its arrays publishes
\* them, every array gathered by one and the same permutation of the rows.
ShuffledLoadPublishesPermutation ==
    (shuffle /\ pc = "idle" /\ preshuffle # None) =>
        /\ result = "ok"
        /\ \E index \in Permutations(1 .. Len(Get(preshuffle).labels)) :
              /\ \A ft \in DOMAIN Get(preshuffle).features :
                    X[ft] = Gather(Get(preshuffle).features[ft], index)
              /\ y = ExpandDims(Gather(Get(preshuffle).labels, index))
              /\ Get(preshuffle).masks # None =>
                    X["part_masks"] = Gather(Get(Get(preshuffle).masks), index)
              /\ \A i \in DOMAIN y : weight[i][1].den = ClassCount(y[i][1])

\* C6: whenever a load call has returned, normally or by an exception,
\* both cache fields are None.
CacheClearedAfterLoad ==
    (pc = "idle" /\ result # "none") =>
        /\ cache_arrays = None
        /\ cache_sample_arrays = None

\* C7: mask[i, j, k] of the published mask tensor is true exactly when jet
\* j of the event row i was read from holds a k-th particle.
MaskMarksRealParticles ==
    (result = "ok" /\ "part_masks" \in DOMAIN X) =>
        LET origin == RowOrigins(built)
        IN  \A i \in DOMAIN X["part_masks"] : \A j \in Jets : \A k \in 1 .. pad_size :
                X["part_masks"][i][j][k] = (k <= RagLen(origin[i].rec, origin[i].event, j))

\* the rows the samples of the call contribute from their own records
RECURSIVE OwnRows(_, _)
OwnRows(entries, ft) ==
    IF entries = <<>> THEN <<>>
    ELSE JetFeatureArrays(Head(entries).sample, ft, pad_size, Cap(Head(entries)))
            \o OwnRows(Tail(entries), ft)

RECURSIVE OwnLabels(_)
OwnLabels(entries) ==
    IF entries = <<>> THEN <<>>
    ELSE [e \in 1 .. Cap(Head(entries)) |-> <<label_map[Head(entries).sample]>>]
            \o OwnLabels(Tail(entries))

\* C8: without shuffle the published rows are the events of each sample,
\* in source order, block after block in the order of the sample list, and
\* every row carries the class value of the sample of its block.
RowsInSampleOrder ==
    (result = "ok" /\ ~shuffle) =>
        /\ \A ft \in FeatureTypes : X[ft] = OwnRows(built, ft)
        /\ y = OwnLabels(built)

\* the view of a sample's own record under the `filenames` of the call
OwnView(sample) ==
    IF filenames.kind = "str" THEN FieldOf(filenames.file, sample)
    ELSE WholeFile(filenames.map[sample])

\* C9: every sample a load call processes is built from the view of its
\* own record, never from the view left by an earlier sample.
ViewIsOwnRecord ==
    \A i \in DOMAIN built : built[i].view = OwnView(built[i].sample)

\* C10: with shuffle enabled the weights are computed before the shuffle
\* and the shuffle comes before the publication; the shuffle never meets
\* an unbound `weights`.
WeightsBeforeShuffle ==
    /\ pc = "shuffle" => weights # None
    /\ \A i \in DOMAIN trace :
          /\ trace[i] = "shuffle" => \E j \in 1 .. i - 1 : trace[j] = "weights"
          /\ trace[i] = "publish" /\ shuffle => \E j \in 1 .. i - 1 : trace[j] = "shuffle"

\* C5: while a load call runs, and after it has raised, the three published
\* fields are those the call found; they are only ever replaced together.
FailedLoadKeepsPublished ==
    /\ (pc # "idle" \/ result = "raised") => published = prev
    /\ (_labels = None) <=> (_weights = None)

\* C5 witness: a call on an object that holds a dataset raised after it had
\* processed a sample
FailedLoadKeepsPublishedWitness ==
    /\ result = "raised"
    /\ prev[2] # None
    /\ Len(Get(prev[2])) > 0
    /\ Len(built) >= 1
====
